---- MODULE Spec2Model ----
(***************************************************************************)
(* Model of pytimetk's future-date generation                              *)
(* (src/src/pytimetk/core/future.py): make_future_timeseries, the          *)
(* ungrouped and grouped paths of future_frame, and the thread pool that   *)
(* the grouped path fans its chunks out to.                                *)
(*                                                                         *)
(* Timestamps are day numbers; day 0 is a Monday, so t % 7 is the weekday  *)
(* (0 = Monday .. 4 = Friday, 5 = Saturday, 6 = Sunday).  NaT is the       *)
(* missing timestamp.  Timezones are not modelled (future.py:352-354).     *)
(***************************************************************************)
EXTENDS Integers, Sequences, FiniteSets, TLC

\* ---------------------------------------------------------------- bounds
MaxLen == 2
MaxGroups == 3
MaxThreads == 3

\* ------------------------------------------------------------- constants
NaT == -1
None == "None"
NoErr == "none"

\* frequency descriptors: calendar day, business day, week (anchored on Sunday)
Freqs == {"D", "B", "W"}

\* date columns handed to make_future_timeseries / the ungrouped future_frame
IdxSet == { <<>>, <<5>>, <<1, 2>>, <<4, 7, 8>>, <<9, 2>>, <<6, 13>> }

\* date columns of one group of a grouped table (an all-NaT group included)
GroupIdxSet == { <<4, 7, 8>>, <<12, 11>>, <<NaT>> }

\* ----------------------------------------------------------- sequences
RECURSIVE Insert(_, _)
Insert(x, s) ==
    IF s = <<>> THEN <<x>>
    ELSE IF x <= Head(s) THEN <<x>> \o s
    ELSE <<Head(s)>> \o Insert(x, Tail(s))

RECURSIVE sort_values(_)
sort_values(s) ==
    IF s = <<>> THEN <<>> ELSE Insert(Head(s), sort_values(Tail(s)))

\* pandas 'max' aggregation: NaT is skipped, an all-NaT column gives NaT
SeqMax(s) ==
    LET vals == { s[i] : i \in 1..Len(s) } \ {NaT}
    IN IF vals = {} THEN NaT ELSE CHOOSE m \in vals : \A v \in vals : v <= m

RECURSIVE Flatten(_)
Flatten(ss) ==
    IF ss = <<>> THEN <<>> ELSE Head(ss) \o Flatten(Tail(ss))

\* ------------------------------------------------------ pandas offsets
OnOffset(f, t) ==
    CASE f = "D" -> TRUE
      [] f = "B" -> t % 7 < 5
      [] f = "W" -> t % 7 = 6

\* the first slot of f strictly after t
NextOn(f, t) == CHOOSE u \in (t + 1)..(t + 7) :
                    OnOffset(f, u) /\ \A v \in (t + 1)..(u - 1) : ~OnOffset(f, v)

RollForward(f, t) == IF OnOffset(f, t) THEN t ELSE NextOn(f, t)

RECURSIVE Steps(_, _, _)
Steps(f, t, n) == IF n <= 0 THEN <<>> ELSE <<t>> \o Steps(f, NextOn(f, t), n - 1)

\* pd.date_range(start, periods, freq): the start is rolled forward onto
\* the offset's grid, then periods slots are produced; a NaT start raises
date_range(start, periods, f) ==
    IF start = NaT THEN [err |-> "ValueError: start is NaT", dates |-> <<>>]
    ELSE [err |-> NoErr, dates |-> Steps(f, RollForward(f, start), periods)]

\* ------------------------------------------------ frequency inference
Deltas(s) == [i \in 1..(Len(s) - 1) |-> s[i + 1] - s[i]]

IsBusinessPattern(s) ==
    /\ \A i \in 1..Len(s) : s[i] % 7 < 5
    /\ \E i \in 1..(Len(s) - 1) : s[i + 1] - s[i] = 3
    /\ \A i \in 1..(Len(s) - 1) :
          \/ s[i + 1] - s[i] = 1
          \/ s[i + 1] - s[i] = 3 /\ s[i] % 7 = 4

get_frequency(ts, force_regular) ==
    LET s == sort_values(ts)
        d == sort_values(Deltas(s))
        med == d[(Len(d) + 1) \div 2]
    IN IF Len(s) < 2 \/ \E i \in 1..Len(s) : s[i] = NaT
       THEN [err |-> "InferenceError", freq |-> None]
       ELSE IF ~force_regular /\ IsBusinessPattern(s)
       THEN [err |-> NoErr, freq |-> "B"]
       ELSE [err |-> NoErr, freq |-> IF med < 4 THEN "D" ELSE "W"]

\* variant: periods = length_out, the anchor's own slot not counted
make_future_timeseries_short(idx, length_out, freq, force_regular) ==
    IF Len(idx) < 2 /\ freq = None
    THEN [err |-> "ValueError: freq must be provided", dates |-> <<>>,
          freq |-> None, infer |-> <<>>, gen |-> FALSE]
    ELSE LET inf == IF freq = None
                    THEN get_frequency(idx, force_regular)
                    ELSE [err |-> NoErr, freq |-> freq]
             log == IF freq = None THEN <<idx>> ELSE <<>>
         IN IF inf.err # NoErr
            THEN [err |-> inf.err, dates |-> <<>>, freq |-> None,
                  infer |-> log, gen |-> FALSE]
            ELSE IF Len(idx) = 0
            THEN [err |-> "IndexError", dates |-> <<>>, freq |-> inf.freq,
                  infer |-> log, gen |-> FALSE]
            ELSE LET r == date_range(idx[Len(idx)], length_out, inf.freq)
                 IN [err |-> r.err,
                     dates |-> IF r.dates = <<>> THEN <<>> ELSE Tail(r.dates),
                     freq |-> inf.freq, infer |-> log, gen |-> TRUE]

\* variant: the length check only rejects an empty idx (len(idx) < 1)
make_future_timeseries_len1(idx, length_out, freq, force_regular) ==
    IF Len(idx) < 1 /\ freq = None
    THEN [err |-> "ValueError: freq must be provided", dates |-> <<>>,
          freq |-> None, infer |-> <<>>, gen |-> FALSE]
    ELSE LET inf == IF freq = None
                    THEN get_frequency(idx, force_regular)
                    ELSE [err |-> NoErr, freq |-> freq]
             log == IF freq = None THEN <<idx>> ELSE <<>>
         IN IF inf.err # NoErr
            THEN [err |-> inf.err, dates |-> <<>>, freq |-> None,
                  infer |-> log, gen |-> FALSE]
            ELSE IF Len(idx) = 0
            THEN [err |-> "IndexError", dates |-> <<>>, freq |-> inf.freq,
                  infer |-> log, gen |-> FALSE]
            ELSE LET r == date_range(idx[Len(idx)], length_out + 1, inf.freq)
                 IN [err |-> r.err,
                     dates |-> IF r.dates = <<>> THEN <<>> ELSE Tail(r.dates),
                     freq |-> inf.freq, infer |-> log, gen |-> TRUE]

\* -------------------------------------------- make_future_timeseries
\* The result records the raised error (NoErr on success), the returned
\* dates, the frequency the dates were generated with, the inputs handed
\* to get_frequency (infer) and whether pd.date_range was reached (gen).
make_future_timeseries(idx, length_out, freq, force_regular) ==
    IF Len(idx) < 2 /\ freq = None
    THEN [err |-> "ValueError: freq must be provided", dates |-> <<>>,
          freq |-> None, infer |-> <<>>, gen |-> FALSE]
    ELSE LET inf == IF freq = None
                    THEN get_frequency(idx, force_regular)
                    ELSE [err |-> NoErr, freq |-> freq]
             log == IF freq = None THEN <<idx>> ELSE <<>>
         IN IF inf.err # NoErr
            THEN [err |-> inf.err, dates |-> <<>>, freq |-> None,
                  infer |-> log, gen |-> FALSE]
            ELSE IF Len(idx) = 0
            THEN [err |-> "IndexError", dates |-> <<>>, freq |-> inf.freq,
                  infer |-> log, gen |-> FALSE]
            ELSE LET r == date_range(idx[Len(idx)], length_out + 1, inf.freq)
                 IN [err |-> r.err,
                     dates |-> IF r.dates = <<>> THEN <<>> ELSE Tail(r.dates),
                     freq |-> inf.freq, infer |-> log, gen |-> TRUE]

\* ------------------------------------------------------------ tables
\* A row of a table: the group key column and the date column.  An
\* ungrouped table has no key column; its rows carry NoKey.
NoKey == 0

Row(k, t) == [key |-> k, date |-> t]

\* pd.DataFrame({date_column: dates}) with the key column set to k
Frame(k, dates) == [i \in 1..Len(dates) |-> Row(k, dates[i])]

\* the rows of a grouped table's underlying frame (data.obj), group by group
RECURSIVE ObjRows(_, _)
ObjRows(groups, g) ==
    IF g > Len(groups) THEN <<>>
    ELSE Frame(g, groups[g]) \o ObjRows(groups, g + 1)

\* ----------------------------------------------------- grouped helpers
\* get_threads: a positive count passes through
get_threads(t) == t

\* data.agg({date_column: 'max'}).reset_index()
LastDates(groups) == [g \in 1..Len(groups) |-> Row(g, SeqMax(groups[g]))]

\* int(len(last_dates_df) / threads)
ChunkSize(n, t) == n \div t

\* [last_dates_df.iloc[i:i + chunk_size] for i in range(0, len, chunk_size)]
\* range() raises ValueError when its step is zero
Subsets(df, chunk_size) ==
    IF chunk_size = 0
    THEN [err |-> "ValueError: range() arg 3 must not be zero", chunks |-> <<>>]
    ELSE LET n == Len(df)
             m == (n + chunk_size - 1) \div chunk_size
             hi(k) == IF k * chunk_size < n THEN k * chunk_size ELSE n
         IN [err |-> NoErr,
             chunks |-> [k \in 1..m |-> SubSeq(df, (k - 1) * chunk_size + 1, hi(k))]]

\* One worker task: for each row of the subset, in order, generate the
\* group's future dates from its single max timestamp and attach the key.
\* The first failing row raises out of the task.  calls records every
\* make_future_timeseries call the task made.
RECURSIVE _process_future_frame_subset(_, _, _, _)
_process_future_frame_subset(subset, length_out, freq, force_regular) ==
    IF subset = <<>> THEN [err |-> NoErr, frames |-> <<>>, calls |-> <<>>]
    ELSE LET row == Head(subset)
             r == make_future_timeseries(<<row.date>>, length_out, freq, force_regular)
             call == [key |-> row.key, freq |-> freq, ret |-> r]
         IN IF r.err # NoErr
            THEN [err |-> r.err, frames |-> <<>>, calls |-> <<call>>]
            ELSE LET rest == _process_future_frame_subset(Tail(subset), length_out,
                                                          freq, force_regular)
                 IN [err |-> rest.err,
                     frames |-> IF rest.err # NoErr THEN <<>>
                                ELSE <<Frame(row.key, r.dates)>> \o rest.frames,
                     calls |-> <<call>> \o rest.calls]

\* ------------------------------------------------------------- state
VARIABLES
    kind,            \* which entry point is called
    data,            \* idx / the date column / the groups' date columns
    length_out, freq, force_regular, bind_data, threads,   \* the arguments
    pc,              \* position of the calling thread
    shared_freq,     \* grouped path: freq after the inference step
    subsets,         \* grouped path: the chunks of last_dates_df
    chunk_state,     \* per chunk: queued / running / done / failed / cancelled
    chunk_out,       \* per chunk: what its worker task returned or raised
    n_collected,     \* how many results the caller has taken from executor.map
    pending_err,     \* the exception travelling out of the with block
    finish_order,    \* the chunks in the order their worker tasks ended
    inferLog,        \* every get_frequency call: who made it, on what
    ret,             \* what make_future_timeseries returned to a direct caller
    outcome          \* the call's result: error or returned table

inputs == <<kind, data, length_out, freq, force_regular, bind_data, threads>>
pool == <<subsets, chunk_state, chunk_out, n_collected, pending_err, finish_order>>
vars == <<inputs, pc, shared_freq, pool, inferLog, ret, outcome>>

Pending == [err |-> "pending", table |-> <<>>]
NoRet == [err |-> "pending", dates |-> <<>>, freq |-> None, infer |-> <<>>, gen |-> FALSE]
NoOut == [err |-> "pending", frames |-> <<>>, calls |-> <<>>]

\* all tuples over S of length 1..n
SeqsUpTo(S, n) == UNION { [1..k -> S] : k \in 1..n }

Init ==
    /\ kind \in {"make_future_timeseries", "DataFrame", "DataFrameGroupBy"}
    /\ data \in IF kind = "DataFrameGroupBy" THEN SeqsUpTo(GroupIdxSet, MaxGroups)
                ELSE IdxSet
    /\ length_out \in (-1)..MaxLen
    /\ freq \in Freqs \cup {None}
    \* force_regular is only ever read when freq is None
    /\ force_regular \in IF freq = None THEN BOOLEAN ELSE {FALSE}
    /\ bind_data \in IF kind = "make_future_timeseries" THEN {FALSE} ELSE BOOLEAN
    /\ threads \in IF kind = "DataFrameGroupBy" THEN 1..MaxThreads ELSE {1}
    /\ pc = "start"
    /\ shared_freq = None
    /\ subsets = <<>>
    /\ chunk_state = <<>>
    /\ chunk_out = <<>>
    /\ n_collected = 0
    /\ pending_err = NoErr
    /\ finish_order = <<>>
    /\ inferLog = <<>>
    /\ ret = NoRet
    /\ outcome = Pending

InferEntries(who, r) == [i \in 1..Len(r.infer) |-> [by |-> who, on |-> r.infer[i]]]

\* -------------------------------------------- make_future_timeseries
CallMakeFutureTimeseries ==
    /\ kind = "make_future_timeseries"
    /\ pc = "start"
    /\ LET r == make_future_timeseries(data, length_out, freq, force_regular)
       IN /\ ret' = r
          /\ inferLog' = InferEntries("caller", r)
          /\ outcome' = [err |-> r.err, table |-> Frame(NoKey, r.dates)]
    /\ pc' = "done"
    /\ UNCHANGED <<inputs, shared_freq, pool>>

\* ------------------------------------------- future_frame, ungrouped
\* freq is not among the arguments handed to make_future_timeseries
UngroupedDates(ts_series, n, f, fr) == make_future_timeseries(ts_series, n, None, fr)

FutureFrameDataFrame ==
    /\ kind = "DataFrame"
    /\ pc = "start"
    /\ LET r == UngroupedDates(data, length_out, freq, force_regular)
           new_rows == Frame(NoKey, r.dates)
       IN /\ ret' = r
          /\ inferLog' = InferEntries("caller", r)
          /\ outcome' = IF r.err # NoErr THEN [err |-> r.err, table |-> <<>>]
                        ELSE IF bind_data
                        THEN [err |-> NoErr, table |-> Frame(NoKey, data) \o new_rows]
                        ELSE [err |-> NoErr, table |-> new_rows]
    /\ pc' = "done"
    /\ UNCHANGED <<inputs, shared_freq, pool>>

\* --------------------------------------------- future_frame, grouped
NumChunks == Len(subsets)
Running == { k \in DOMAIN chunk_state : chunk_state[k] = "running" }

\* variant: the frequency is inferred from the last group
FirstGroupFrequency_last(groups, fr) ==
    LET first_group == sort_values(groups[Len(groups)])
    IN [on |-> first_group, inf |-> get_frequency(first_group, fr)]

\* freq is None: infer it from the first group's sorted dates
\* (on: the dates handed to get_frequency, inf: what it returned)
FirstGroupFrequency(groups, fr) ==
    LET first_group == sort_values(groups[1])
    IN [on |-> first_group, inf |-> get_frequency(first_group, fr)]

GroupedInferFrequency ==
    /\ kind = "DataFrameGroupBy"
    /\ pc = "start"
    /\ IF freq = None
       THEN LET first == FirstGroupFrequency(data, force_regular)
                inf == first.inf
            IN /\ inferLog' = <<[by |-> "future_frame", on |-> first.on]>>
               /\ shared_freq' = inf.freq
               /\ IF inf.err # NoErr
                  THEN /\ outcome' = [err |-> inf.err, table |-> <<>>]
                       /\ pc' = "done"
                  ELSE /\ pc' = "partition"
                       /\ UNCHANGED outcome
       ELSE /\ shared_freq' = freq
            /\ pc' = "partition"
            /\ UNCHANGED <<inferLog, outcome>>
    /\ UNCHANGED <<inputs, pool, ret>>

\* last_dates_df, chunk_size and the list of subsets
GroupedPartition ==
    /\ pc = "partition"
    /\ LET last_dates_df == LastDates(data)
           chunk_size == ChunkSize(Len(last_dates_df), get_threads(threads))
           p == Subsets(last_dates_df, chunk_size)
       IN /\ subsets' = p.chunks
          /\ IF p.err # NoErr
             THEN /\ outcome' = [err |-> p.err, table |-> <<>>]
                  /\ pc' = "done"
             ELSE /\ pc' = "submit"
                  /\ UNCHANGED outcome
    /\ UNCHANGED <<inputs, shared_freq, chunk_state, chunk_out, n_collected,
                   pending_err, finish_order, inferLog, ret>>

\* executor.map submits one task per subset before any result is taken
ExecutorMap ==
    /\ pc = "submit"
    /\ chunk_state' = [k \in 1..NumChunks |-> "queued"]
    /\ chunk_out' = [k \in 1..NumChunks |-> NoOut]
    /\ pc' = "collect"
    /\ UNCHANGED <<inputs, shared_freq, subsets, n_collected, pending_err,
                   finish_order, inferLog, ret, outcome>>

\* a free worker thread takes the oldest queued task
StartChunk(k) ==
    /\ chunk_state[k] = "queued"
    /\ \A j \in 1..(k - 1) : chunk_state[j] # "queued"
    /\ Cardinality(Running) < get_threads(threads)
    /\ chunk_state' = [chunk_state EXCEPT ![k] = "running"]
    /\ UNCHANGED <<inputs, pc, shared_freq, subsets, chunk_out, n_collected,
                   pending_err, finish_order, inferLog, ret, outcome>>

\* the worker runs its task to completion: it returns or raises
FinishChunk(k) ==
    /\ chunk_state[k] = "running"
    /\ LET out == _process_future_frame_subset(subsets[k], length_out,
                                               shared_freq, force_regular)
       IN /\ chunk_out' = [chunk_out EXCEPT ![k] = out]
          /\ chunk_state' = [chunk_state EXCEPT
                               ![k] = IF out.err = NoErr THEN "done" ELSE "failed"]
          /\ inferLog' = inferLog \o
                Flatten([i \in 1..Len(out.calls) |->
                            InferEntries("worker", out.calls[i].ret)])
    /\ finish_order' = Append(finish_order, k)
    /\ UNCHANGED <<inputs, pc, shared_freq, subsets, n_collected, pending_err,
                   ret, outcome>>

\* list(executor.map(...)): results are taken in submission order
CollectResult ==
    /\ pc = "collect"
    /\ n_collected < NumChunks
    /\ chunk_state[n_collected + 1] = "done"
    /\ n_collected' = n_collected + 1
    /\ UNCHANGED <<inputs, pc, shared_freq, subsets, chunk_state, chunk_out,
                   pending_err, finish_order, inferLog, ret, outcome>>

\* variant: a failed task's exception is swallowed and its result skipped
CollectFailure_swallow ==
    /\ pc = "collect"
    /\ n_collected < NumChunks
    /\ chunk_state[n_collected + 1] = "failed"
    /\ n_collected' = n_collected + 1
    /\ UNCHANGED <<inputs, pc, shared_freq, subsets, chunk_state, chunk_out,
                   pending_err, finish_order, inferLog, ret, outcome>>

\* the next result re-raises its task's exception: the tasks still queued
\* are cancelled and the with block waits for the running ones
CollectFailure ==
    /\ pc = "collect"
    /\ n_collected < NumChunks
    /\ chunk_state[n_collected + 1] = "failed"
    /\ pending_err' = chunk_out[n_collected + 1].err
    /\ chunk_state' = [k \in 1..NumChunks |->
                          IF chunk_state[k] = "queued" THEN "cancelled"
                          ELSE chunk_state[k]]
    /\ pc' = "shutdown"
    /\ UNCHANGED <<inputs, shared_freq, subsets, chunk_out, n_collected,
                   finish_order, inferLog, ret, outcome>>

\* executor shutdown(wait=True) returns; the exception leaves future_frame
Shutdown ==
    /\ pc = "shutdown"
    /\ Running = {}
    /\ outcome' = [err |-> pending_err, table |-> <<>>]
    /\ pc' = "done"
    /\ UNCHANGED <<inputs, shared_freq, pool, inferLog, ret>>

\* variant: the frames are gathered in the order the tasks ended
FutureDatesList_completed(outs, n) ==
    Flatten([i \in 1..Len(finish_order) |-> outs[finish_order[i]].frames])

\* the frames of the chunks the caller has taken, in submission order
FutureDatesList(outs, n) ==
    Flatten([k \in 1..n |-> outs[k].frames])

\* extend future_dates_list, concat, optionally bind to data.obj, return
Assemble ==
    /\ pc = "collect"
    /\ n_collected = NumChunks
    /\ LET future_dates_df == Flatten(FutureDatesList(chunk_out, n_collected))
       IN outcome' = [err |-> NoErr,
                      table |-> IF bind_data
                                THEN ObjRows(data, 1) \o future_dates_df
                                ELSE future_dates_df]
    /\ pc' = "done"
    /\ UNCHANGED <<inputs, shared_freq, pool, inferLog, ret>>

Next ==
    \/ CallMakeFutureTimeseries
    \/ FutureFrameDataFrame
    \/ GroupedInferFrequency
    \/ GroupedPartition
    \/ ExecutorMap
    \/ \E k \in DOMAIN chunk_state : StartChunk(k)
    \/ \E k \in DOMAIN chunk_state : FinishChunk(k)
    \/ CollectResult
    \/ CollectFailure
    \/ Shutdown
    \/ Assemble

Spec == Init /\ [][Next]_vars

\* =================================================================
\* Properties
\* =================================================================
Grouped == kind = "DataFrameGroupBy"
Direct == kind = "make_future_timeseries"
NumGroups == Len(data)
RangeErr == "ValueError: range() arg 3 must not be zero"
FreqRequired == "ValueError: freq must be provided"

\* the partitioning step of the grouped path has run
PartitionStepTaken ==
    /\ Grouped
    /\ \/ pc \in {"submit", "collect", "shutdown"}
       \/ pc = "done" /\ outcome.err # "InferenceError"

Count(seq, r) == Cardinality({ i \in 1..Len(seq) : seq[i] = r })
SameRows(a, b) ==
    \A r \in { a[i] : i \in 1..Len(a) } \cup { b[i] : i \in 1..Len(b) } :
        Count(a, r) = Count(b, r)

\* the future rows of a returned grouped table (after the bound original rows)
FutureRows ==
    IF bind_data
    THEN SubSeq(outcome.table, Len(ObjRows(data, 1)) + 1, Len(outcome.table))
    ELSE outcome.table

StrictlyIncreasing(s) == \A i \in 1..(Len(s) - 1) : s[i] < s[i + 1]

\* C1: for every group count G >= 1 and worker count T >= 1 (T > G and T not
\* dividing G included) the partitioning step of a call does not fail, and its chunks are contiguous, non-overlapping and
\* cover every group exactly once.
C1_PartitionCoversAllGroups ==
    (PartitionStepTaken /\ length_out > 0) =>
        /\ outcome.err # RangeErr
        /\ Flatten(subsets) = LastDates(data)
        /\ \A g \in 1..NumGroups :
              Cardinality({ k \in 1..NumChunks :
                  \E i \in 1..Len(subsets[k]) : subsets[k][i].key = g }) = 1

\* C2: whatever the thread count, a grouped call (positive length_out) that
\* succeeds with threads = 1 succeeds, and returns the same multiset of (key, future
\* timestamp) rows as the threads = 1 run, which processes the whole
\* per-group table as one subset.
C2_ThreadInvariance ==
    (PartitionStepTaken /\ pc = "done" /\ length_out > 0) =>
        LET one == _process_future_frame_subset(LastDates(data), length_out,
                                                shared_freq, force_regular)
        IN /\ one.err = NoErr => outcome.err = NoErr
           /\ one.err = NoErr => SameRows(FutureRows, Flatten(one.frames))

\* C3: a successful grouped call with positive length_out returns exactly
\* length_out future rows per group, G * length_out in all, each with its
\* group's key and a date after that group's anchor, on or off the grid.
C3_CountInvariant ==
    (Grouped /\ pc = "done" /\ outcome.err = NoErr /\ length_out > 0) =>
        /\ Len(FutureRows) = NumGroups * length_out
        /\ ~bind_data => Len(outcome.table) = NumGroups * length_out
        /\ \A g \in 1..NumGroups :
              LET mine == { i \in 1..Len(FutureRows) : FutureRows[i].key = g }
              IN /\ Cardinality(mine) = length_out
                 /\ \A i \in mine : FutureRows[i].date > SeqMax(data[g])

C3_Witness ==
    /\ Grouped /\ pc = "done" /\ outcome.err = NoErr /\ length_out > 0
    /\ NumGroups >= 2
    /\ \E g \in 1..NumGroups : ~OnOffset(shared_freq, SeqMax(data[g]))

\* C4: for a non-empty input, sorted or not, and positive length_out the
\* returned timestamps are strictly increasing and all strictly greater
\* than the maximum input timestamp.
C4_OrderingInvariant ==
    (Direct /\ pc = "done" /\ ret.err = NoErr /\ Len(data) >= 1 /\ length_out > 0) =>
        /\ StrictlyIncreasing(ret.dates)
        /\ \A i \in 1..Len(ret.dates) : ret.dates[i] > SeqMax(data)

\* C5: the first generated timestamp is the first slot of freq strictly
\* after the last observed timestamp, and each later one is the slot after
\* its predecessor, for on-grid and off-grid anchors alike.
C5_FirstIsOnePeriodAfterAnchor ==
    (Direct /\ pc = "done" /\ ret.err = NoErr /\ length_out > 0) =>
        /\ ret.dates[1] = NextOn(ret.freq, data[Len(data)])
        /\ \A i \in 1..(Len(ret.dates) - 1) :
              ret.dates[i + 1] = NextOn(ret.freq, ret.dates[i])

\* C6: a call with length_out <= 0 ends in an error and returns no table;
\* on the grouped path no chunk is submitted to the pool.
C6_NonPositiveLengthOutRejected ==
    (length_out <= 0) =>
        /\ pc = "done" => outcome.err # NoErr
        /\ chunk_state = <<>>

\* C7: on a table of at least one row the ungrouped future_frame generates exactly the timestamps that
\* make_future_timeseries returns for the date column with the same
\* length_out, freq and force_regular, and fails exactly when it fails.
C7_UngroupedMatchesGenerator ==
    (kind = "DataFrame" /\ pc = "done" /\ Len(data) >= 1 /\ length_out > 0) =>
        LET r == make_future_timeseries(data, length_out, freq, force_regular)
            new_rows == IF bind_data
                        THEN SubSeq(outcome.table, Len(data) + 1, Len(outcome.table))
                        ELSE outcome.table
        IN /\ outcome.err = r.err
           /\ r.err = NoErr => new_rows = Frame(NoKey, r.dates)

\* C8: make_future_timeseries raises the freq-must-be-provided error exactly
\* when the input has fewer than 2 timestamps and freq is None, and raises
\* it before any inference or date generation; a single timestamp with an
\* explicit freq succeeds with length_out timestamps (freq "D": the
\* length_out days after it).
C8_FreqRequiredError ==
    (Direct /\ pc = "done") =>
        /\ (ret.err = FreqRequired) = (Len(data) < 2 /\ freq = None)
        /\ ret.err = FreqRequired =>
              (ret.infer = <<>> /\ inferLog = <<>> /\ ~ret.gen /\ ret.dates = <<>>)
        /\ (Len(data) = 1 /\ freq # None /\ length_out >= 0) =>
              /\ ret.err = NoErr
              /\ Len(ret.dates) = length_out
              /\ freq = "D" => ret.dates = [i \in 1..length_out |-> data[1] + i]

C8_Witness ==
    /\ Direct /\ pc = "done"
    /\ Len(data) = 1 /\ freq = None
    /\ ret.err = FreqRequired

\* C9: once the generation of any group has failed in any chunk, the call
\* returns no table and ends in an error, whichever chunk failed and
\* however many other chunks have finished or been collected.
C9_GroupFailureFailsCall ==
    (Grouped /\ \E k \in DOMAIN chunk_state : chunk_state[k] = "failed") =>
        /\ outcome.table = <<>>
        /\ pc = "done" => outcome.err # NoErr

C9_Witness ==
    /\ Grouped /\ pc = "done"
    /\ n_collected >= 1
    /\ \E k \in DOMAIN chunk_state : chunk_state[k] = "failed"
    /\ \E k \in DOMAIN chunk_state : chunk_state[k] = "done"

\* C10: on the grouped path with freq None, get_frequency runs exactly
\* once, by future_frame itself on the first group's sorted dates, before
\* any chunk is submitted; every generator call of every worker receives
\* that same non-null frequency, does no inference and never raises the
\* freq-must-be-provided error.
C10_InferOnceBeforeDispatch ==
    (Grouped /\ freq = None) =>
        /\ pc = "start" => (inferLog = <<>> /\ chunk_state = <<>>)
        /\ pc # "start" =>
              inferLog = <<[by |-> "future_frame", on |-> sort_values(data[1])]>>
        /\ chunk_state # <<>> => shared_freq \in Freqs
        /\ \A k \in DOMAIN chunk_out : \A i \in 1..Len(chunk_out[k].calls) :
              LET c == chunk_out[k].calls[i]
              IN /\ c.freq = shared_freq
                 /\ c.freq # None
                 /\ c.ret.infer = <<>>
                 /\ c.ret.err # FreqRequired

C10_Witness ==
    /\ Grouped /\ freq = None /\ pc = "done" /\ outcome.err = NoErr
    /\ NumChunks >= 2
    /\ \A k \in DOMAIN chunk_state : chunk_state[k] = "done"

\* Row order of C11: a grouped call that returns a table returns, under every thread count and every order in which the
\* worker tasks end, the original rows in their original order first (when
\* bind_data) and then the future rows group by group in the row order of
\* the per-group max-timestamp table, each group's rows contiguous and
\* ascending in time.
C11_RowOrder ==
    (Grouped /\ pc = "done" /\ outcome.err = NoErr) =>
        /\ bind_data =>
              SubSeq(outcome.table, 1, Len(ObjRows(data, 1))) = ObjRows(data, 1)
        /\ Len(outcome.table) =
              Len(FutureRows) + (IF bind_data THEN Len(ObjRows(data, 1)) ELSE 0)
        /\ \A i \in 1..(Len(FutureRows) - 1) :
              LET a == FutureRows[i]
                  b == FutureRows[i + 1]
                  pos(r) == CHOOSE g \in 1..NumGroups : LastDates(data)[g].key = r.key
              IN \/ pos(a) < pos(b)
                 \/ pos(a) = pos(b) /\ a.date < b.date

\* C11 (as checked): every step leaves the input table as it was and
\* leads to a state in which the returned table has the row order above.
C11_OrderIndependentOfScheduling ==
    [][data' = data /\ C11_RowOrder']_vars

\* a bound table was returned although a later chunk ended before an earlier one
C11_Witness ==
    /\ Grouped /\ pc = "done" /\ outcome.err = NoErr
    /\ bind_data /\ length_out >= 2
    /\ \E i, j \in 1..Len(finish_order) : i < j /\ finish_order[i] > finish_order[j]

====
